---- MODULE Spec2Model ----
(***************************************************************************)
(* A model of covid_analyzer.py: the CovidAnalyzer object (two tables read *)
(* from CSV files), its public methods, and the __main__ driver.           *)
(*                                                                         *)
(* Tables are sequences of records (a DataFrame's rows in file order).     *)
(* A numeric cell is a natural number or NaN (an empty CSV cell).          *)
(* A float is a pair <<n, d>>: the fraction n/d in lowest terms when       *)
(* d > 0, <<1, 0>> for inf and <<0, 0>> for nan, with numpy's rules for    *)
(* division by zero (x/0 = inf, 0/0 = nan, no exception).  All numbers of  *)
(* the program are non-negative, so -inf does not occur.                   *)
(***************************************************************************)
EXTENDS Integers, Sequences, FiniteSets, TLC

\* ---------------------------------------------------------------- bounds
MaxVal == 2          \* largest count in a generated Case Table cell
MaxRows == 2         \* most rows in a generated Measure Table

\* ------------------------------------------------------------- constants
TopK == 5            \* value_counts()[0:5]

NaN == 0 - 1         \* an empty numeric cell, as read by pandas

Cells == {NaN} \cup (0 .. MaxVal)
Countries == {"US", "FR"}
Measures == {"a", "b"}

COVID_STATS_FLAG == "COVID_STATS_FLAG"
MEASURES_STATS_FLAG == "MEASURES_STATS_FLAG"
FileType == {COVID_STATS_FLAG, MEASURES_STATS_FLAG}

\* ------------------------------------------------------------ arithmetic
RECURSIVE GCD(_, _)
GCD(a, b) == IF b = 0 THEN a ELSE GCD(b, a % b)

FNan == <<0, 0>>
FInf == <<1, 0>>
FZero == <<0, 1>>

Norm(n, d) ==
    IF d = 0 THEN (IF n = 0 THEN FNan ELSE FInf)
    ELSE LET g == GCD(n, d) IN <<n \div g, d \div g>>

\* a cell (numpy scalar from .iloc[0]) as a float
FromCell(v) == IF v = NaN THEN FNan ELSE <<v, 1>>

IsNan(x) == x = FNan
IsInf(x) == x = FInf
IsFinite(x) == x[2] > 0

\* x + y on floats
FAdd(x, y) ==
    IF IsNan(x) \/ IsNan(y) THEN FNan
    ELSE IF IsInf(x) \/ IsInf(y) THEN FInf
    ELSE Norm(x[1] * y[2] + y[1] * x[2], x[2] * y[2])

\* x / y on numpy floats: division by zero gives inf or nan, never raises
FDiv(x, y) ==
    IF IsNan(x) \/ IsNan(y) THEN FNan
    ELSE IF IsInf(x) THEN (IF IsInf(y) THEN FNan ELSE FInf)
    ELSE IF IsInf(y) THEN FZero
    ELSE Norm(x[1] * y[2], x[2] * y[1])

\* math.isnan on a cell
isnan(v) == v = NaN

\* ----------------------------------------------------------------- state
VARIABLES
    covid_file,               \* covid_cases_stats.csv on disk: [st, tbl]
    measure_file,             \* covid_safety_measures.csv on disk: [st, tbl]
    covid_stats,              \* self.__covid_stats
    safety_measures_states,   \* self.__safety_measures_states
    last,                     \* the outcome of the latest call
    pc,                       \* position of the caller
    length,                   \* len(sys.argv) of the __main__ driver
    eff_prints                \* times __main__ printed find_efficient_measures()

vars == <<covid_file, measure_file, covid_stats, safety_measures_states,
          last, pc, length, eff_prints>>

tables == <<covid_stats, safety_measures_states>>
files == <<covid_file, measure_file>>
driver == <<pc, length, eff_prints>>

\* the outcome of a call: what it printed, returned or raised.  val is the
\* number handed to str.format ('{:.2}', '{:.6}'), before it is rendered;
\* divz records that the call divided by a zero
Out(op, arg, kind) ==
    [op |-> op, arg |-> arg, kind |-> kind, val |-> FNan, map |-> <<>>,
     sel |-> <<>>, rows |-> <<>>, divz |-> FALSE]

\* --------------------------------------------------------------- lookups
get_covid_stats == covid_stats

get_measure_stats == safety_measures_states

\* the rows of a table whose column col_name equals search, in table order
LocRows(table, col_name, search) ==
    LET Match(r) == r[col_name] = search IN SelectSeq(table, Match)

fetch_records(col_name, country_name, flag) ==
    IF flag = COVID_STATS_FLAG
    THEN LocRows(get_covid_stats, col_name, country_name)
    ELSE LocRows(get_measure_stats, col_name, country_name)

\* frame[col]: one column of a sequence of rows
Column(frame, col) == [i \in 1 .. Len(frame) |-> frame[i][col]]

\* ---------------------------------------------------- get_recovered_ratio
\* a variant that reports a row with a missing value as no row at all
get_recovered_ratio_missing_as_absent(country_name) ==
    LET record == fetch_records("country", country_name, COVID_STATS_FLAG)
    IN  IF /\ Len(record) > 0
           /\ ~isnan(record[1].total_recovered)
           /\ ~isnan(record[1].total_cases)
        THEN [Out("get_recovered_ratio", country_name, "ratio") EXCEPT
                 !.val = FDiv(FromCell(record[1].total_recovered),
                              FromCell(record[1].total_cases)),
                 !.divz = (record[1].total_cases = 0)]
        ELSE Out("get_recovered_ratio", country_name, "no_country")

get_recovered_ratio(country_name) ==
    LET record == fetch_records("country", country_name, COVID_STATS_FLAG)
        series_of_recovered_cases == Column(record, "total_recovered")
        series_of_total_cases == Column(record, "total_cases")
    IN  IF Len(series_of_recovered_cases) > 0 /\ Len(series_of_total_cases) > 0
        THEN LET recovered == series_of_recovered_cases[1]
                 total_case == series_of_total_cases[1]
             IN  [Out("get_recovered_ratio", country_name, "ratio") EXCEPT
                     !.val = FDiv(FromCell(recovered), FromCell(total_case)),
                     !.divz = (total_case = 0)]
        ELSE Out("get_recovered_ratio", country_name, "no_country")

\* ------------------------------------------------ find_average_death_rate
death_rate(cases_per_measure, deaths_per_measure) ==
    FDiv(FromCell(cases_per_measure), FromCell(deaths_per_measure))

\* the test that lets a row into the sum (lines 147 and 150)
death_rate_usable(total_cases_series, total_deaths_series) ==
    /\ Len(total_cases_series) > 0
    /\ Len(total_deaths_series) > 0
    /\ ~isnan(total_deaths_series[1])
    /\ ~isnan(total_cases_series[1])

\* the loop over the adopting countries; acc = [sum, divz]
RECURSIVE death_rate_loop(_, _)
death_rate_loop(countries, acc) ==
    IF countries = <<>> THEN acc
    ELSE LET i == Head(countries)
             total_deaths_series ==
                 Column(fetch_records("country", i, COVID_STATS_FLAG), "total_deaths")
             total_cases_series ==
                 Column(fetch_records("country", i, COVID_STATS_FLAG), "total_cases")
         IN  death_rate_loop(Tail(countries),
                 IF death_rate_usable(total_cases_series, total_deaths_series)
                 THEN [sum |-> FAdd(acc.sum,
                                    death_rate(total_cases_series[1],
                                               total_deaths_series[1])),
                       divz |-> acc.divz \/ total_deaths_series[1] = 0]
                 ELSE acc)

\* a variant that divides by the number of rows that entered the sum
average_divisor_retained(series_of_countries_with_measures) ==
    Cardinality({k \in 1 .. Len(series_of_countries_with_measures) :
        LET rows == fetch_records("country", series_of_countries_with_measures[k],
                                  COVID_STATS_FLAG)
        IN  death_rate_usable(Column(rows, "total_cases"), Column(rows, "total_deaths"))})

\* the divisor of the average (line 156)
average_divisor(series_of_countries_with_measures) ==
    Len(series_of_countries_with_measures)

\* a variant that raises whenever nothing was added to the sum
find_average_death_rate_raises_on_empty_sum(measure) ==
    LET series_of_countries_with_measures ==
            Column(fetch_records("measure", measure, MEASURES_STATS_FLAG), "country")
        acc == death_rate_loop(series_of_countries_with_measures,
                               [sum |-> FZero, divz |-> FALSE])
    IN  IF Len(series_of_countries_with_measures) > 0 /\ acc.sum # FZero
        THEN [Out("find_average_death_rate", measure, "average") EXCEPT
                 !.val = FDiv(acc.sum,
                              <<average_divisor(series_of_countries_with_measures), 1>>),
                 !.divz = acc.divz]
        ELSE Out("find_average_death_rate", measure, "ValueError")

find_average_death_rate(measure) ==
    LET series_of_countries_with_measures ==
            Column(fetch_records("measure", measure, MEASURES_STATS_FLAG), "country")
        acc == death_rate_loop(series_of_countries_with_measures,
                               [sum |-> FZero, divz |-> FALSE])
    IN  IF Len(series_of_countries_with_measures) > 0
        THEN [Out("find_average_death_rate", measure, "average") EXCEPT
                 !.val = FDiv(acc.sum,
                              <<average_divisor(series_of_countries_with_measures), 1>>),
                 !.divz = acc.divz]
        ELSE Out("find_average_death_rate", measure, "ValueError")

\* ------------------------------------------------ find_efficient_measures
\* the number of rows of a column that hold v
Occurrences(col, v) == Cardinality({i \in 1 .. Len(col) : col[i] = v})

\* Series.value_counts(): the distinct values by descending count.  pandas
\* sorts the counts with Series.sort_values(ascending=False), whose default
\* kind is 'quicksort', which is not a stable sort: the order of values of
\* equal count is not fixed by the library, so every order is an outcome.
RECURSIVE CountOrders(_, _)
CountOrders(col, remaining) ==
    IF remaining = {} THEN {<<>>}
    ELSE LET top == {v \in remaining :
                        \A w \in remaining : Occurrences(col, w) <= Occurrences(col, v)}
         IN  UNION {{<<v>> \o rest : rest \in CountOrders(col, remaining \ {v})} :
                    v \in top}

value_counts(col) == CountOrders(col, {col[i] : i \in 1 .. Len(col)})

\* series[0:5]
FirstK(series) == SubSeq(series, 1, IF Len(series) < TopK THEN Len(series) ELSE TopK)

\* the test that lets a country into the pooled sums (lines 191-192)
pooled_usable(recovered_cases, total_cases) ==
    /\ Len(recovered_cases) > 0
    /\ Len(total_cases) > 0
    /\ ~isnan(recovered_cases[1])
    /\ ~isnan(total_cases[1])

\* the inner loop (lines 187-194); acc = [recovered, cases, numpy].  Both sums
\* start as the Python int 0 and become numpy scalars with the first row added.
RECURSIVE pooled_loop(_, _)
pooled_loop(series_of_countries, acc) ==
    IF series_of_countries = <<>> THEN acc
    ELSE LET country == Head(series_of_countries)
             data_frame == fetch_records("country", country, COVID_STATS_FLAG)
             recovered_cases == Column(data_frame, "total_recovered")
             total_cases == Column(data_frame, "total_cases")
         IN  pooled_loop(Tail(series_of_countries),
                 IF pooled_usable(recovered_cases, total_cases)
                 THEN [recovered |-> acc.recovered + recovered_cases[1],
                       cases |-> acc.cases + total_cases[1],
                       numpy |-> TRUE]
                 ELSE acc)

\* sum_of_recovered_cases / sum_of_total_cases (line 197) raises
\* ZeroDivisionError when both operands are still the Python int 0
pooled_division_raises(acc) == ~acc.numpy /\ acc.cases = 0

\* the outer loop (lines 181-197); res = [raised, dict, divz]; dict is the
\* result dictionary as the sequence of its <<key, value>> items in insertion order
RECURSIVE efficiency_loop(_, _)
efficiency_loop(list_of_mostly_adopted_measures, res) ==
    IF list_of_mostly_adopted_measures = <<>> \/ res.raised THEN res
    ELSE LET measure == Head(list_of_mostly_adopted_measures)
             series_of_countries ==
                 Column(fetch_records("measure", measure, MEASURES_STATS_FLAG), "country")
             acc == pooled_loop(series_of_countries,
                                [recovered |-> 0, cases |-> 0, numpy |-> FALSE])
         IN  efficiency_loop(Tail(list_of_mostly_adopted_measures),
                 IF pooled_division_raises(acc)
                 THEN [res EXCEPT !.raised = TRUE]
                 ELSE [res EXCEPT
                          !.dict = Append(@, <<measure,
                                               FDiv(<<acc.recovered, 1>>, <<acc.cases, 1>>)>>),
                          !.divz = @ \/ acc.cases = 0])

\* find_efficient_measures for one outcome `ranking` of value_counts()
find_efficient_measures(ranking) ==
    LET list_of_mostly_adopted_measures == FirstK(ranking)
        res == efficiency_loop(list_of_mostly_adopted_measures,
                               [raised |-> FALSE, dict |-> <<>>, divz |-> FALSE])
    IN  IF res.raised
        THEN [Out("find_efficient_measures", "", "ZeroDivisionError") EXCEPT
                 !.sel = list_of_mostly_adopted_measures]
        ELSE [Out("find_efficient_measures", "", "dict") EXCEPT
                 !.map = res.dict, !.divz = res.divz,
                 !.sel = list_of_mostly_adopted_measures]

\* ------------------------------------------------------------ the files
CovidPath == "covid_cases_stats.csv"
MeasurePath == "covid_safety_measures.csv"

OtherCovid ==
    <<[country |-> "FR", total_cases |-> 2, total_deaths |-> 1, total_recovered |-> 1]>>

OtherMeasures == <<[country |-> "FR", measure |-> "b"]>>

File(st, tbl) == [st |-> st, tbl |-> tbl]

\* what pd.read_csv finds at a path: a table, no file, or a file of zero bytes
ReadCsv(path) ==
    CASE path = CovidPath -> covid_file
      [] path = MeasurePath -> measure_file
      [] path = "other_cases.csv" -> File("ok", OtherCovid)
      [] path = "other_measures.csv" -> File("ok", OtherMeasures)
      [] path = "empty.csv" -> File("empty", <<>>)
      [] OTHER -> File("missing", <<>>)

\* the exception a reader raises for a file, "ok" when it raises none
ReadKind(f) ==
    CASE f.st = "ok" -> "ok"
      [] f.st = "missing" -> "FileNotFoundError"
      [] f.st = "empty" -> "EmptyDataError"
      [] OTHER -> "Exception"

\* a variant that leaves the field empty when read_csv raises
read_assign_reset(old, f) == IF f.st = "ok" THEN f.tbl ELSE <<>>

\* the field after `self.x = pd.read_csv(path)` inside try: the assignment
\* happens only when read_csv returns
read_assign(old, f) == IF f.st = "ok" THEN f.tbl ELSE old

read_covid_stats(covid_file_path) ==
    /\ covid_stats' = read_assign(covid_stats, ReadCsv(covid_file_path))
    /\ last' = Out("read_covid_stats", covid_file_path, ReadKind(ReadCsv(covid_file_path)))
    /\ UNCHANGED safety_measures_states

read_measures_stats(safety_measures_file_path) ==
    /\ safety_measures_states' =
           read_assign(safety_measures_states, ReadCsv(safety_measures_file_path))
    /\ last' = Out("read_measures_stats", safety_measures_file_path,
                   ReadKind(ReadCsv(safety_measures_file_path)))
    /\ UNCHANGED covid_stats

\* ------------------------------------------------------------ the inputs
CaseRows(c) ==
    [country : {c}, total_cases : Cells, total_deaths : Cells, total_recovered : Cells]

\* Case Tables, at most one row per country: the row of US ranges over every
\* combination of cells, FR has the complete row of OtherCovid or no row
CaseTables ==
    {<<>>, OtherCovid}
    \cup {<<r>> : r \in CaseRows("US")}
    \cup {<<r>> \o OtherCovid : r \in CaseRows("US")}

MeasureRows == [country : Countries, measure : Measures]

MeasureTables == UNION {[1 .. n -> MeasureRows] : n \in 0 .. MaxRows}

\* the worked examples of the specification
ExampleCovid ==
    <<[country |-> "US", total_cases |-> 100, total_deaths |-> 10, total_recovered |-> 50],
      [country |-> "FR", total_cases |-> 200, total_deaths |-> 20, total_recovered |-> 100]>>

ExampleMeasures ==
    <<[country |-> "US", measure |-> "lockdown"], [country |-> "FR", measure |-> "lockdown"]>>

RankingColumn == <<"a", "a", "a", "b", "b", "c", "c", "c", "c", "d", "e", "f">>

RankingMeasures ==
    [i \in 1 .. Len(RankingColumn) |-> [country |-> "US", measure |-> RankingColumn[i]]]

\* the pairs (Case Table, Measure Table) a run starts from
Inputs ==
    (CaseTables \X MeasureTables)
    \cup {<<ExampleCovid, ExampleMeasures>>, <<ExampleCovid, RankingMeasures>>}

CountryArgs == Countries \cup {"Noland"}
MeasureArgs == Measures \cup {"lockdown", "none"}

CovidReadPaths == {CovidPath, "other_cases.csv", "empty.csv", "missing.csv"}
MeasureReadPaths == {MeasurePath, "other_measures.csv", "empty.csv", "missing.csv"}

\* ------------------------------------------- a client of the public methods
\* the state when CovidAnalyzer(covid_file_path, measure_file_path) has returned
Constructed(in) ==
    /\ covid_file = File("ok", in[1])
    /\ measure_file = File("ok", in[2])
    /\ covid_stats = covid_file.tbl
    /\ safety_measures_states = measure_file.tbl
    /\ last = Out("__init__", "", "ok")
    /\ pc = "api"
    /\ length = 0
    /\ eff_prints = 0

Init == \E in \in Inputs : Constructed(in)

GetRecoveredRatio ==
    /\ pc = "api"
    /\ \E country_name \in CountryArgs : last' = get_recovered_ratio(country_name)
    /\ UNCHANGED <<tables, files, driver>>

FindAverageDeathRate ==
    /\ pc = "api"
    /\ \E measure \in MeasureArgs : last' = find_average_death_rate(measure)
    /\ UNCHANGED <<tables, files, driver>>

FindEfficientMeasures ==
    /\ pc = "api"
    /\ \E ranking \in value_counts(Column(get_measure_stats, "measure")) :
           last' = find_efficient_measures(ranking)
    /\ UNCHANGED <<tables, files, driver>>

\* fetch_records called directly: a flag outside FileType raises ValueError
FetchRecords ==
    /\ pc = "api"
    /\ \E flag \in FileType \cup {"other"}, country_name \in CountryArgs :
           last' = IF flag \in FileType
                   THEN [Out("fetch_records", country_name, flag) EXCEPT
                            !.rows = fetch_records("country", country_name, flag)]
                   ELSE Out("fetch_records", country_name, "ValueError")
    /\ UNCHANGED <<tables, files, driver>>

GetCovidStats ==
    /\ pc = "api"
    /\ last' = [Out("get_covid_stats", "", "table") EXCEPT !.rows = get_covid_stats]
    /\ UNCHANGED <<tables, files, driver>>

GetMeasureStats ==
    /\ pc = "api"
    /\ last' = [Out("get_measure_stats", "", "table") EXCEPT !.rows = get_measure_stats]
    /\ UNCHANGED <<tables, files, driver>>

ReadCovidStats ==
    /\ pc = "api"
    /\ \E path \in CovidReadPaths : read_covid_stats(path)
    /\ UNCHANGED <<files, driver>>

ReadMeasuresStats ==
    /\ pc = "api"
    /\ \E path \in MeasureReadPaths : read_measures_stats(path)
    /\ UNCHANGED <<files, driver>>

\* the queries, the lookup and the getters
Next ==
    \/ GetRecoveredRatio
    \/ FindAverageDeathRate
    \/ FindEfficientMeasures
    \/ FetchRecords
    \/ GetCovidStats
    \/ GetMeasureStats

Spec == Init /\ [][Next]_vars

\* every public method, the two readers included, from the constructed
\* objects whose tables have at most one row each
ReloadInit == \E in \in Inputs : Len(in[1]) <= 1 /\ Len(in[2]) <= 1 /\ Constructed(in)

ReloadNext ==
    \/ GetRecoveredRatio
    \/ FindAverageDeathRate
    \/ FindEfficientMeasures
    \/ FetchRecords
    \/ GetCovidStats
    \/ GetMeasureStats
    \/ ReadCovidStats
    \/ ReadMeasuresStats

SpecReload == ReloadInit /\ [][ReloadNext]_vars

\* ------------------------------------------------------ the __main__ driver
\* len(sys.argv): 1, 2, or more than 2 (3 stands for every larger count)
RunModes == {1, 2, 3}

FileStates == {"ok", "missing", "empty"}

\* the script has started: nothing is read yet
MainInit ==
    /\ \E in \in Inputs, cs \in FileStates, ms \in FileStates :
           /\ Len(in[1]) <= 1
           /\ covid_file = File(cs, IF cs = "ok" THEN in[1] ELSE <<>>)
           /\ measure_file = File(ms, IF ms = "ok" THEN in[2] ELSE <<>>)
    /\ covid_stats = <<>>
    /\ safety_measures_states = <<>>
    /\ last = Out("start", "", "ok")
    /\ pc = "start"
    /\ length \in RunModes
    /\ eff_prints = 0

\* lines 205-211: CovidAnalyzer(...) reads the measures, then the cases; any
\* exception becomes an uncaught FileNotFoundError('File not found')
MainConstruct ==
    /\ pc = "start"
    /\ LET mf == ReadCsv(MeasurePath)
           cf == ReadCsv(CovidPath)
       IN  /\ safety_measures_states' = read_assign(safety_measures_states, mf)
           /\ covid_stats' = IF mf.st = "ok" THEN read_assign(covid_stats, cf)
                             ELSE covid_stats
           /\ IF mf.st = "ok" /\ cf.st = "ok"
              THEN /\ last' = Out("__init__", "", "ok")
                   /\ pc' = "ratio"
              ELSE /\ last' = Out("__init__", "", "FileNotFoundError")
                   /\ pc' = "abort_load"
    /\ UNCHANGED <<files, length, eff_prints>>

\* lines 216-217, 224-228, 238-241: the country is typed in or is argv[1]
MainRecoveredRatio ==
    /\ pc = "ratio"
    /\ \E country_name \in CountryArgs : last' = get_recovered_ratio(country_name)
    /\ pc' = "average"
    /\ UNCHANGED <<tables, files, length, eff_prints>>

\* where the script goes after find_average_death_rate: with no argument
\* (lines 215-222) print(find_efficient_measures()) is inside the except
\* block; with arguments (lines 234, 245) it follows the try statement
after_average(len, raised) ==
    IF len = 1 THEN (IF raised THEN "efficient" ELSE "done") ELSE "efficient"

\* lines 218-221, 229-233, 242-244: the measure is typed in or is argv[2:]
MainAverageDeathRate ==
    /\ pc = "average"
    /\ \E measure \in MeasureArgs :
           /\ last' = find_average_death_rate(measure)
           /\ pc' = after_average(length, last'.kind = "ValueError")
    /\ UNCHANGED <<tables, files, length, eff_prints>>

\* lines 222, 234, 245: print(covidAnalyzer.find_efficient_measures()); an
\* exception of the call is caught nowhere and ends the script
MainEfficientMeasures ==
    /\ pc = "efficient"
    /\ \E ranking \in value_counts(Column(get_measure_stats, "measure")) :
           /\ last' = find_efficient_measures(ranking)
           /\ IF last'.kind = "dict"
              THEN pc' = "done" /\ eff_prints' = eff_prints + 1
              ELSE pc' = "abort_efficient" /\ eff_prints' = eff_prints
    /\ UNCHANGED <<tables, files, length>>

MainNext ==
    \/ MainConstruct
    \/ MainRecoveredRatio
    \/ MainAverageDeathRate
    \/ MainEfficientMeasures

SpecMain == MainInit /\ [][MainNext]_vars

\* =================================================================== claims
\* what the claims speak of, stated over the tables and not over the methods

\* the first Case Table row of a country, 0 when it has none
CaseRowOf(country) ==
    LET hits == {j \in 1 .. Len(covid_stats) : covid_stats[j].country = country}
    IN  IF hits = {} THEN 0 ELSE CHOOSE j \in hits : \A k \in hits : j <= k

\* the Measure Table rows that carry a measure
AdoptingRows(measure) ==
    {i \in 1 .. Len(safety_measures_states) : safety_measures_states[i].measure = measure}

AdopterCase(i) == covid_stats[CaseRowOf(safety_measures_states[i].country)]

\* adopting rows whose country has a Case Table row with cases and deaths present
RetainedRows(measure) ==
    {i \in AdoptingRows(measure) :
        /\ CaseRowOf(safety_measures_states[i].country) > 0
        /\ AdopterCase(i).total_cases # NaN
        /\ AdopterCase(i).total_deaths # NaN}

\* adopting rows whose country has a Case Table row with cases and recoveries present
PooledRows(measure) ==
    {i \in AdoptingRows(measure) :
        /\ CaseRowOf(safety_measures_states[i].country) > 0
        /\ AdopterCase(i).total_cases # NaN
        /\ AdopterCase(i).total_recovered # NaN}

RECURSIVE SumOfRates(_)
SumOfRates(rows) ==
    IF rows = {} THEN FZero
    ELSE LET i == CHOOSE x \in rows : TRUE
         IN  FAdd(FDiv(<<AdopterCase(i).total_cases, 1>>, <<AdopterCase(i).total_deaths, 1>>),
                  SumOfRates(rows \ {i}))

RECURSIVE SumOfColumn(_, _)
SumOfColumn(rows, col) ==
    IF rows = {} THEN 0
    ELSE LET i == CHOOSE x \in rows : TRUE
         IN  AdopterCase(i)[col] + SumOfColumn(rows \ {i}, col)

IsAverageCall == last.op = "find_average_death_rate"
IsRatioCall == last.op = "get_recovered_ratio"
IsEfficientCall == last.op = "find_efficient_measures"

\* C1: for a country whose Case Table row has total_cases zero or missing,
\* get_recovered_ratio ends in an Undefined outcome: it divides by no zero
\* and reports no ratio.
C1_ZeroCasesUndefined ==
    (/\ IsRatioCall
     /\ CaseRowOf(last.arg) > 0
     /\ covid_stats[CaseRowOf(last.arg)].total_cases \in {0, NaN})
    => (last.kind # "ratio" /\ ~last.divz)

\* C2: for a country name that matches no Case Table row, get_recovered_ratio
\* ends in the not-found outcome and reports no ratio; a country whose row
\* exists, with values missing or not, never ends in that outcome.
C2_NotFoundDistinct ==
    IsRatioCall =>
        /\ (CaseRowOf(last.arg) = 0 => last.kind = "no_country")
        /\ (CaseRowOf(last.arg) > 0 => last.kind = "ratio")

C2_Witness ==
    /\ IsRatioCall
    /\ last.kind = "no_country"
    /\ \E j \in 1 .. Len(covid_stats) : covid_stats[j].total_cases = NaN

\* C3: find_average_death_rate raises the no-adopters error and reports no
\* average exactly for the measures that no Measure Table row carries.
C3_NoAdoptersRaises ==
    IsAverageCall =>
        /\ (AdoptingRows(last.arg) = {} => last.kind = "ValueError")
        /\ (AdoptingRows(last.arg) # {} => last.kind = "average")

C3_Witness ==
    /\ IsAverageCall
    /\ last.kind = "ValueError"
    /\ safety_measures_states # <<>>

\* C4: an adopting country whose total_deaths is zero is skipped by
\* find_average_death_rate: no division by zero happens and the result is finite.
C4_ZeroDeathsSkipped ==
    (/\ IsAverageCall
     /\ \E i \in AdoptingRows(last.arg) :
            /\ CaseRowOf(safety_measures_states[i].country) > 0
            /\ AdopterCase(i).total_deaths = 0)
    => (last.kind = "average" /\ ~last.divz /\ IsFinite(last.val))

\* C5: for a measure with at least one adopter, find_average_death_rate reports
\* the sum of total_cases/total_deaths over the retained adopting rows divided
\* by the number of all adopting rows; the specification's example gives 10.
C5_AverageOverAllAdopters ==
    /\ (IsAverageCall /\ AdoptingRows(last.arg) # {}) =>
           /\ last.kind = "average"
           /\ last.val = FDiv(SumOfRates(RetainedRows(last.arg)),
                              <<Cardinality(AdoptingRows(last.arg)), 1>>)
    /\ (/\ IsAverageCall
        /\ last.arg = "lockdown"
        /\ covid_stats = ExampleCovid
        /\ safety_measures_states = ExampleMeasures) => last.val = <<10, 1>>

C5_Witness ==
    /\ IsAverageCall
    /\ RetainedRows(last.arg) # {}
    /\ RetainedRows(last.arg) # AdoptingRows(last.arg)
    /\ IsFinite(last.val)
    /\ last.val # FZero

\* C6: when a measure has adopting rows but every one of them is skipped,
\* find_average_death_rate ends Undefined and reports no numeric average.
C6_AllSkippedUndefined ==
    (IsAverageCall /\ AdoptingRows(last.arg) # {} /\ RetainedRows(last.arg) = {})
    => last.kind # "average"

\* C7: find_efficient_measures never aborts: it returns an entry for every
\* selected measure, an undefined marker where no adopter has both values or
\* the pooled total_cases is zero, the pooled ratio everywhere else.
C7_PartialFailure ==
    IsEfficientCall =>
        /\ last.kind = "dict"
        /\ Len(last.map) = Len(last.sel)
        /\ \A k \in 1 .. Len(last.map) :
               LET measure == last.sel[k]
                   sum_cases == SumOfColumn(PooledRows(measure), "total_cases")
                   sum_recovered == SumOfColumn(PooledRows(measure), "total_recovered")
               IN  /\ last.map[k][1] = measure
                   /\ IF sum_cases = 0
                      THEN ~IsFinite(last.map[k][2])
                      ELSE last.map[k][2] = Norm(sum_recovered, sum_cases)

\* the ranking by descending frequency, ties by the earlier first row
FirstRow(col, v) == CHOOSE i \in 1 .. Len(col) : col[i] = v /\ \A k \in 1 .. (i - 1) : col[k] # v

RanksBefore(col, v, w) ==
    \/ Occurrences(col, v) > Occurrences(col, w)
    \/ Occurrences(col, v) = Occurrences(col, w) /\ FirstRow(col, v) < FirstRow(col, w)

RECURSIVE StableRanking(_, _)
StableRanking(col, remaining) ==
    IF remaining = {} THEN <<>>
    ELSE LET v == CHOOSE x \in remaining : \A w \in remaining \ {x} : RanksBefore(col, x, w)
         IN  <<v>> \o StableRanking(col, remaining \ {v})

MeasureColumn == [i \in 1 .. Len(safety_measures_states) |-> safety_measures_states[i].measure]

\* C8: find_efficient_measures selects the at most five most frequent
\* measures, ties ranked by the earlier first row, so the selection is fixed
\* by the row order; the example's column selects c, a, b, d, e.
C8_StableSelection ==
    IsEfficientCall =>
        LET ranking == StableRanking(MeasureColumn, {MeasureColumn[i] : i \in DOMAIN MeasureColumn})
        IN  /\ last.sel = SubSeq(ranking, 1, IF Len(ranking) < 5 THEN Len(ranking) ELSE 5)
            /\ (MeasureColumn = RankingColumn => last.sel = <<"c", "a", "b", "d", "e">>)

C9_Step ==
    /\ last'.op \notin {"read_covid_stats", "read_measures_stats"} =>
           tables' = tables
    /\ last'.op = "read_covid_stats" =>
           /\ safety_measures_states' = safety_measures_states
           /\ covid_stats' = IF last'.kind = "ok" THEN ReadCsv(last'.arg).tbl
                             ELSE covid_stats
    /\ last'.op = "read_measures_stats" =>
           /\ covid_stats' = covid_stats
           /\ safety_measures_states' = IF last'.kind = "ok" THEN ReadCsv(last'.arg).tbl
                                        ELSE safety_measures_states

C10_EfficientPrintedOnce ==
    pc \in {"done", "abort_efficient"} => eff_prints = 1

====
